---- MODULE Spec2Model ----
(***************************************************************************)
(* BICGSTAB solver for sparse linear systems in CSR form: the serial       *)
(* solver (bicgstab_serial), the OpenMP solver (bicgstab_parallel), their  *)
(* vector kernels and matvec, and the benchmark driver that calls them.    *)
(*                                                                         *)
(* A C double is modelled by a binary floating-point format of the same    *)
(* shape as IEEE-754 binary64 but scaled down: MantBits significand bits,  *)
(* gradual underflow down to 2^-FracBits, round-to-nearest-even, overflow  *)
(* to infinity, NaN.  A finite value is held as an integer count of the    *)
(* smallest subnormal 2^-FracBits, so 1.0 is the integer One.  Zero is     *)
(* unsigned: the sign of a zero is observable only through a division by   *)
(* it, and the only divisors of the solvers that can be zero are results   *)
(* of dot products (sums started at +0.0, never -0.0).                     *)
(***************************************************************************)
EXTENDS Integers, Sequences, FiniteSets, TLC

\* ------------------------------------------------------------------------
\* Bounds of the model
\* ------------------------------------------------------------------------
\* fraction bits of the scaled-down double: the smallest positive value is 2^-FracBits
FracBits == 4
\* significand bits of the scaled-down double
MantBits == 4
\* the largest finite value is (2^MantBits - 1) * 2^MaxExp smallest units
MaxExp == 6
\* largest max_iter the driver passes
MaxIter == 2
\* largest worker count the driver passes
MaxThreads == 3

\* ------------------------------------------------------------------------
\* The double type
\* ------------------------------------------------------------------------
RECURSIVE Pow2(_)
Pow2(k) == IF k <= 0 THEN 1 ELSE 2 * Pow2(k - 1)

One == Pow2(FracBits)
MaxFinite == (Pow2(MantBits) - 1) * Pow2(MaxExp)
PosInf == MaxFinite + 1
NegInf == -PosInf
NaN == PosInf + 1
\* the indeterminate content of storage that malloc returned, or of a local
\* declared without an initialiser
Uninit == NaN + 1

IsFinite(a) == a >= -MaxFinite /\ a <= MaxFinite
IsInf(a) == a = PosInf \/ a = NegInf
Sgn(a) == IF a > 0 THEN 1 ELSE IF a < 0 THEN -1 ELSE 0
AbsInt(a) == IF a < 0 THEN -a ELSE a

\* The operations on doubles below are written op(a, b) == CHOOSE r \in
\* {Op(f[1], f[2]) : f \in {<<a, b>>}} : TRUE, which is Op(a, b) with each
\* operand evaluated once.

\* spacing of the representable values at magnitude k (k in smallest units):
\* values below MantLimit smallest units are spaced one unit apart
MantLimit == Pow2(MantBits)

\* a magnitude of RoundLimit smallest units or more rounds to infinity
RoundLimit == 2 * (MaxFinite + 1)

SpacingAt(k) ==
    Pow2(CHOOSE e \in 0..(MaxExp + 1) :
            /\ k < MantLimit * Pow2(e)
            /\ e = 0 \/ k >= MantLimit * Pow2(e - 1))

\* spacing of the representable values at each magnitude below RoundLimit
Ulp == [k \in 0..(RoundLimit - 1) |-> SpacingAt(k)]

\* largest representable value <= k
GridFloor == [k \in 0..(RoundLimit - 1) |-> k - (k % Ulp[k])]

\* round-to-nearest, ties to even significand, of a value between the adjacent
\* representable values lo and hi; cmp is the sign of (value - midpoint)
Nearest(lo, hi, cmp) ==
    LET pick == IF cmp < 0 THEN lo
                ELSE IF cmp > 0 THEN hi
                ELSE IF (lo \div Ulp[lo]) % 2 = 0 THEN lo ELSE hi
    IN IF pick > MaxFinite THEN PosInf ELSE pick

RoundBetween(lo, num, den) ==
    Nearest(lo, lo + Ulp[lo], Sgn(2 * num - (2 * lo + Ulp[lo]) * den))

\* the double nearest to the rational num/den (num >= 0, den > 0)
RoundRat(num, den) ==
    IF num >= RoundLimit * den THEN PosInf
    ELSE RoundBetween(GridFloor[num \div den], num, den)

RoundSigned(num, den) == Sgn(num) * Sgn(den) * RoundRat(AbsInt(num), AbsInt(den))

NegOf(a) == IF a = NaN \/ a = Uninit THEN a ELSE -a

FNeg(a) == CHOOSE r \in {NegOf(f) : f \in {a}} : TRUE

AbsOf(a) == IF a = NaN \/ a = Uninit THEN a ELSE AbsInt(a)

FAbs(a) == CHOOSE r \in {AbsOf(f) : f \in {a}} : TRUE

Sum(a, b) ==
    IF a = Uninit \/ b = Uninit THEN Uninit
    ELSE IF a = NaN \/ b = NaN THEN NaN
    ELSE IF IsInf(a) THEN (IF IsInf(b) /\ a # b THEN NaN ELSE a)
    ELSE IF IsInf(b) THEN b
    ELSE RoundSigned(a + b, 1)

FAdd(a, b) == CHOOSE r \in {Sum(f[1], f[2]) : f \in {<<a, b>>}} : TRUE

FSub(a, b) == FAdd(a, FNeg(b))

Product(a, b) ==
    IF a = Uninit \/ b = Uninit THEN Uninit
    ELSE IF a = NaN \/ b = NaN THEN NaN
    ELSE IF IsInf(a) \/ IsInf(b)
         THEN (IF a = 0 \/ b = 0 THEN NaN ELSE Sgn(a) * Sgn(b) * PosInf)
    ELSE RoundSigned(a * b, One)

FMul(a, b) == CHOOSE r \in {Product(f[1], f[2]) : f \in {<<a, b>>}} : TRUE

Quotient(a, b) ==
    IF a = Uninit \/ b = Uninit THEN Uninit
    ELSE IF a = NaN \/ b = NaN THEN NaN
    ELSE IF IsInf(a) THEN (IF IsInf(b) THEN NaN
                           ELSE IF b < 0 THEN -a ELSE a)
    ELSE IF IsInf(b) THEN 0
    ELSE IF b = 0 THEN (IF a = 0 THEN NaN ELSE Sgn(a) * PosInf)
    ELSE RoundSigned(a * One, b)

FDiv(a, b) == CHOOSE r \in {Quotient(f[1], f[2]) : f \in {<<a, b>>}} : TRUE

\* no square root taken exceeds SqrtMax smallest units
SqrtMax == Pow2(((MantBits + MaxExp + FracBits) \div 2) + 1)

\* floor of the square root of the integer N >= 0
ISqrt(N) == CHOOSE k \in 0..SqrtMax : k * k <= N /\ N < (k + 1) * (k + 1)

\* the double nearest to the square root of the finite double a >= 0
RootOf(a) ==
    LET N == a * One
        lo == GridFloor[ISqrt(N)]
        hi == lo + Ulp[lo]
    IN Nearest(lo, hi, Sgn(4 * N - (lo + hi) * (lo + hi)))

SqrtTable == [a \in 0..MaxFinite |-> RootOf(a)]

Root(a) ==
    IF a = Uninit THEN Uninit
    ELSE IF a = NaN \/ a < 0 THEN NaN
    ELSE IF a = PosInf THEN PosInf
    ELSE SqrtTable[a]

\* sqrt() of math.h, correctly rounded
FSqrt(a) == CHOOSE r \in {Root(f) : f \in {a}} : TRUE

\* a < b and a == b on doubles: false when an operand is NaN
Less(a, b) == a # NaN /\ b # NaN /\ a # Uninit /\ b # Uninit /\ a < b
FLt(a, b) == CHOOSE r \in {Less(f[1], f[2]) : f \in {<<a, b>>}} : TRUE
Same(a, b) == a # NaN /\ b # NaN /\ a # Uninit /\ b # Uninit /\ a = b
FEq(a, b) == CHOOSE r \in {Same(f[1], f[2]) : f \in {<<a, b>>}} : TRUE

\* the literal 1e-30 of the breakdown tests, in the scaled-down format: the
\* smallest positive value
Eps30 == 1

\* ------------------------------------------------------------------------
\* Serial kernels (bicgstab_serial.c) and matvec_csr (fem_matrix.c)
\* ------------------------------------------------------------------------
\* the loop "for (i = lo; i < hi; i++) sum += a[i] * b[i];" entered with sum
RECURSIVE DotLoop(_, _, _, _, _)
DotLoop(a, b, i, hi, sum) ==
    IF i >= hi THEN sum
    ELSE DotLoop(a, b, i + 1, hi, FAdd(sum, FMul(a[i], b[i])))

dot_product(a, b, n) == DotLoop(a, b, 0, n, 0)

vector_copy(src, n) == [i \in 0..(n - 1) |-> src[i]]

\* y = a*x + y
vector_axpy(a, x, y, n) == [i \in 0..(n - 1) |-> FAdd(y[i], FMul(a, x[i]))]

\* z = a*x + b*y
vector_axpby(a, x, b, y, n) ==
    [i \in 0..(n - 1) |-> FAdd(FMul(a, x[i]), FMul(b, y[i]))]

vector_norm(x, n) == FSqrt(dot_product(x, x, n))

\* the loop over the stored entries j of one row, entered with sum
RECURSIVE RowLoop(_, _, _, _, _)
RowLoop(A, x, j, hi, sum) ==
    IF j >= hi THEN sum
    ELSE RowLoop(A, x, j + 1, hi, FAdd(sum, FMul(A.values[j], x[A.col_idx[j]])))

\* matvec_csr without the "y[i] = 0.0": each row is added to what malloc left
\* in y[i]
matvec_csr_NoZero(A, x) ==
    [i \in 0..(A.n - 1) |-> RowLoop(A, x, A.row_ptr[i], A.row_ptr[i + 1], Uninit)]

\* y = A*x: y[i] = 0.0, then y[i] += values[j] * x[col_idx[j]]
matvec_csr(A, x) ==
    [i \in 0..(A.n - 1) |-> RowLoop(A, x, A.row_ptr[i], A.row_ptr[i + 1], 0)]

\* ------------------------------------------------------------------------
\* OpenMP kernels (bicgstab_parallel.c)
\* ------------------------------------------------------------------------
\* "#pragma omp parallel for" with the default (static) schedule: the team of
\* T workers 0..T-1 splits 0..n-1 into contiguous blocks, the first n % T
\* blocks one longer
ChunkLo(n, T, w) ==
    LET q == n \div T
        rm == n % T
    IN IF w < rm THEN w * (q + 1) ELSE w * q + rm

ChunkHi(n, T, w) == ChunkLo(n, T, w + 1)

\* the worker that executes loop index i
Owner(n, T, i) == CHOOSE w \in 0..(T - 1) : ChunkLo(n, T, w) <= i /\ i < ChunkHi(n, T, w)

\* the orders in which the T private copies of a reduction variable can be
\* combined into the shared one
OrdersOf ==
    [T \in 1..MaxThreads |->
        {o \in [1..T -> 0..(T - 1)] : \A w \in 0..(T - 1) : \E k \in 1..T : o[k] = w}]

Orders(T) == OrdersOf[T]

\* Combine as an unsynchronised update of sum: only the last worker's partial
\* sum survives
Combine_LastOnly(part, ord, k, sum) == FAdd(sum, part[ord[Len(ord)]])

\* reduction(+:sum): combine the private partial sums into sum, in order ord
RECURSIVE Combine(_, _, _, _)
Combine(part, ord, k, sum) ==
    IF k > Len(ord) THEN sum
    ELSE Combine(part, ord, k + 1, FAdd(sum, part[ord[k]]))

\* each worker sums its block into a private copy initialised to 0.0; the
\* copies are then added to the shared sum (0.0) in the order ord
dot_product_parallel(a, b, n, T, ord) ==
    LET part == [w \in 0..(T - 1) |->
                    DotLoop(a, b, ChunkLo(n, T, w), ChunkHi(n, T, w), 0)]
    IN Combine(part, ord, 1, 0)

vector_copy_parallel(src, n, T) ==
    [i \in 0..(n - 1) |-> LET w == Owner(n, T, i) IN src[i]]

vector_axpy_parallel(a, x, y, n, T) ==
    [i \in 0..(n - 1) |-> LET w == Owner(n, T, i) IN FAdd(y[i], FMul(a, x[i]))]

vector_axpby_parallel(a, x, b, y, n, T) ==
    [i \in 0..(n - 1) |->
        LET w == Owner(n, T, i) IN FAdd(FMul(a, x[i]), FMul(b, y[i]))]

vector_norm_parallel(x, n, T, ord) == FSqrt(dot_product_parallel(x, x, n, T, ord))

\* the values a call of dot_product_parallel / vector_norm_parallel can return,
\* over the orders in which the runtime may combine the partial sums
DotResults(a, b, n, T) == {dot_product_parallel(a, b, n, T, ord) : ord \in Orders(T)}

NormResults(x, n, T) == {vector_norm_parallel(x, n, T, ord) : ord \in Orders(T)}

\* rows are split among the workers; the owner of row i sums the row into a
\* private sum started at 0.0 and stores it to y[i]
matvec_csr_parallel(A, x, T) ==
    [i \in 0..(A.n - 1) |->
        LET w == Owner(A.n, T, i)
        IN RowLoop(A, x, A.row_ptr[i], A.row_ptr[i + 1], 0)]

\* ------------------------------------------------------------------------
\* Inputs: the linear systems, tolerances and worker counts the driver uses
\* ------------------------------------------------------------------------
\* dimensions n of the systems
Dims == {2, 3}
\* (lower, diagonal, upper) coefficients of the tridiagonal matrices, in units of 1.0
Stencils == {<<0, 1, 0>>, <<-1, 2, -1>>, <<-1, 2, 1>>, <<1, 1, 1>>, <<0, 2, 1>>}
\* entries of the right-hand side b, in units of 1.0
BVals == {-1, 0, 1}
\* right-hand sides (n = 3) whose entries differ by more than the precision of
\* a double: 32.0 + 1.0 rounds to 32.0 in the scaled-down format
WideRhs == {<<32, -32, 1>>, <<-32, 1, 32>>}
\* tolerances tol: 2^-FracBits and 4 * 2^-FracBits
Tols == {1, 4}

\* the stored entries <<column, value>> of row i, in column order, zeros not stored
RowEntries(n, st, i) ==
    (IF i > 0 /\ st[1] # 0 THEN << <<i - 1, st[1] * One>> >> ELSE << >>)
    \o (IF st[2] # 0 THEN << <<i, st[2] * One>> >> ELSE << >>)
    \o (IF i < n - 1 /\ st[3] # 0 THEN << <<i + 1, st[3] * One>> >> ELSE << >>)

RECURSIVE EntriesFrom(_, _, _)
EntriesFrom(n, st, i) ==
    IF i >= n THEN << >> ELSE RowEntries(n, st, i) \o EntriesFrom(n, st, i + 1)

RECURSIVE RowStart(_, _, _)
RowStart(n, st, i) ==
    IF i = 0 THEN 0 ELSE RowStart(n, st, i - 1) + Len(RowEntries(n, st, i - 1))

\* a CSRMatrix: n, nnz, values[0..nnz-1], col_idx[0..nnz-1], row_ptr[0..n]
Tridiag(n, st) ==
    LET ent == EntriesFrom(n, st, 0)
    IN [n |-> n,
        nnz |-> Len(ent),
        values |-> [j \in 0..(Len(ent) - 1) |-> ent[j + 1][2]],
        col_idx |-> [j \in 0..(Len(ent) - 1) |-> ent[j + 1][1]],
        row_ptr |-> [i \in 0..n |-> RowStart(n, st, i)]]

Zeros(n) == [i \in 0..(n - 1) |-> 0]

\* a FEMSystem as create_fem_system leaves it: A, b, x zeroed by calloc, n
Systems ==
    UNION {{[A |-> Tridiag(n, st), b |-> [i \in 0..(n - 1) |-> bv[i] * One],
             x |-> Zeros(n), n |-> n] :
               st \in Stencils, bv \in [0..(n - 1) -> BVals]} : n \in Dims}
    \cup {[A |-> Tridiag(3, st), b |-> [i \in 0..2 |-> w[i + 1] * One],
            x |-> Zeros(3), n |-> 3] : st \in Stencils, w \in WideRhs}

\* thread_counts[] of run_benchmark: the same worker count for every configuration
ThreadCountSeqs == {<<t, t>> : t \in 1..MaxThreads}

\* ------------------------------------------------------------------------
\* State
\* ------------------------------------------------------------------------
VARIABLES
    sys,            \* the FEMSystem: A, b, x, n
    max_iter,       \* run_benchmark's max_iter
    tol,            \* run_benchmark's tol
    thread_counts,  \* run_benchmark's thread_counts[]
    hpc,            \* where run_benchmark is
    cfg,            \* run_benchmark's loop index i over thread_counts
    iter_serial,    \* run_benchmark's iter_serial
    iter_parallel,  \* run_benchmark's iter_parallel
    serial_time,    \* run_benchmark's serial_time
    parallel_time,  \* run_benchmark's parallel_time
    stdout,         \* what run_benchmark printed after each solve
    fr,             \* the frame of the solver call in progress
    ret,            \* the value the last solver call returned
    runs,           \* history: one record per solver call that has returned
    omp,            \* the OpenMP runtime: the parallel regions that are active
    kc,             \* one kernel call followed worker by worker
    fem             \* one call of create_fem_system followed node by node

vars == <<sys, max_iter, tol, thread_counts, hpc, cfg, iter_serial, iter_parallel,
          serial_time, parallel_time, stdout, fr, ret, runs, omp, kc,
          fem>>

\* what no statement of a solver touches: run_benchmark's locals and the two
\* views of the OpenMP runtime, which the solver steps below treat as atomic,
\* and the call of create_fem_system, which is over before any solve
harness_vars == <<max_iter, tol, thread_counts, hpc, cfg, iter_serial, iter_parallel,
                  serial_time, parallel_time, stdout, omp, kc, fem>>

\* a pointer that holds no storage of the solver (before malloc, after free)
NoVec == << >>

\* storage of n doubles as malloc returns it
Malloc(n) == [i \in 0..(n - 1) |-> Uninit]

\* no solver call in progress.  out, agree and last are records kept about
\* the call: the messages printed, whether every reduction gave the serial
\* value, and the loop index at which v, alpha and omega were last assigned
\* (-1: not by the loop)
NoFrame ==
    [fn |-> "none", pc |-> "none", num_threads |-> 0, n |-> 0,
     r |-> NoVec, r0 |-> NoVec, p |-> NoVec, v |-> NoVec, s |-> NoVec, t |-> NoVec,
     rho |-> Uninit, alpha |-> Uninit, omega |-> Uninit, rho_prev |-> Uninit,
     beta |-> Uninit, bnorm |-> Uninit, s_norm |-> Uninit, r_norm |-> Uninit,
     iter |-> 0, out |-> << >>, agree |-> TRUE,
     last |-> [v |-> -1, alpha |-> -1, omega |-> -1]]

\* the frame on entry to bicgstab_serial (nt = 0) or bicgstab_parallel
Entry(fn, nt) == [NoFrame EXCEPT !.fn = fn, !.pc = "setup", !.num_threads = nt]

\* the OpenMP runtime with no parallel region active and no kernel call returned
NoRegions == [regions |-> {}, log |-> {}]

\* no kernel call is being followed
NoCall ==
    [kernel |-> "none", state |-> "idle", T |-> 0, owner |-> << >>, args |-> << >>,
     mem |-> << >>, done |-> {}, stores |-> << >>, rd |-> {}, wr |-> {},
     part |-> << >>, terms |-> << >>, merged |-> << >>, sum |-> Uninit]

\* create_fem_system is not being followed
NoBuild ==
    [pc |-> "idle", nx |-> 0, ny |-> 0, n |-> 0, max_nnz |-> 0, cap |-> 0,
     ke |-> Uninit, kn |-> Uninit, kw |-> Uninit,
     i |-> 0, j |-> 0, nnz_count |-> 0, oob |-> FALSE,
     temp_values |-> << >>, temp_col |-> << >>, temp_row |-> << >>, b |-> << >>,
     A |-> [n |-> 0, nnz |-> 0, values |-> << >>, col_idx |-> << >>, row_ptr |-> << >>]]

Init ==
    /\ sys \in Systems
    /\ max_iter \in 0..MaxIter
    /\ tol \in Tols
    /\ thread_counts \in ThreadCountSeqs
    /\ hpc = "serial_call"
    /\ cfg = 0
    /\ iter_serial = 0
    /\ iter_parallel = 0
    /\ serial_time = "unset"
    /\ parallel_time = "unset"
    /\ stdout = << >>
    /\ fr = NoFrame
    /\ ret = 0
    /\ runs = << >>
    /\ omp = NoRegions
    /\ kc = NoCall
    /\ fem = NoBuild

\* ------------------------------------------------------------------------
\* bicgstab_serial
\* ------------------------------------------------------------------------
\* what a printf of the solver reports: the message, the number it prints, and
\* (for "converged") which of the two convergence checks printed it
Msg(kind, at, check) == [kind |-> kind, at |-> at, check |-> check]

InSerial(pc) == fr.fn = "serial" /\ fr.pc = pc

\* S_Setup with r0 = r (the shadow residual the comment of lines 69-71 replaced)
S_Setup_ShadowIsResidual ==
    /\ InSerial("setup")
    /\ LET n == sys.n
           r == vector_copy(sys.b, n)
           bn == vector_norm(sys.b, n)
       IN fr' = [fr EXCEPT !.n = n,
                           !.r = r,
                           !.r0 = vector_copy(r, n),
                           !.p = vector_copy(r, n),
                           !.v = Malloc(n), !.s = Malloc(n), !.t = Malloc(n),
                           !.rho = One, !.alpha = One, !.omega = One,
                           !.bnorm = IF FEq(bn, 0) THEN One ELSE bn,
                           !.iter = 0,
                           !.pc = "loop"]
    /\ UNCHANGED <<sys, harness_vars, ret, runs>>

\* lines 49-84: allocate, r = b, r0 = 1, p = r, scalars, bnorm, iter = 0
S_Setup ==
    /\ InSerial("setup")
    /\ LET n == sys.n
           r == vector_copy(sys.b, n)
           bn == vector_norm(sys.b, n)
       IN fr' = [fr EXCEPT !.n = n,
                           !.r = r,
                           !.r0 = [i \in 0..(n - 1) |-> One],
                           !.p = vector_copy(r, n),
                           !.v = Malloc(n), !.s = Malloc(n), !.t = Malloc(n),
                           !.rho = One, !.alpha = One, !.omega = One,
                           !.bnorm = IF FEq(bn, 0) THEN One ELSE bn,
                           !.iter = 0,
                           !.pc = "loop"]
    /\ UNCHANGED <<sys, harness_vars, ret, runs>>

\* S_LoopTest with the condition iter <= max_iter
S_LoopTest_Inclusive ==
    /\ InSerial("loop")
    /\ fr' = [fr EXCEPT !.pc = IF fr.iter <= max_iter THEN "rho" ELSE "epilogue"]
    /\ UNCHANGED <<sys, harness_vars, ret, runs>>

\* line 85: the loop condition iter < max_iter
S_LoopTest ==
    /\ InSerial("loop")
    /\ fr' = [fr EXCEPT !.pc = IF fr.iter < max_iter THEN "rho" ELSE "epilogue"]
    /\ UNCHANGED <<sys, harness_vars, ret, runs>>

\* S_Rho without the breakdown test
S_Rho_NoBreakdownTest ==
    /\ InSerial("rho")
    /\ fr' = [fr EXCEPT !.rho_prev = fr.rho,
                        !.rho = dot_product(fr.r0, fr.r, fr.n),
                        !.pc = "p"]
    /\ UNCHANGED <<sys, harness_vars, ret, runs>>

\* lines 86-92: rho_prev = rho, rho = dot(r0, r), rho breakdown test
S_Rho ==
    /\ InSerial("rho")
    /\ LET rho == dot_product(fr.r0, fr.r, fr.n)
       IN fr' = IF FLt(FAbs(rho), Eps30)
                THEN [fr EXCEPT !.rho_prev = fr.rho, !.rho = rho,
                                !.out = Append(fr.out, Msg("rho breakdown", fr.iter, 0)),
                                !.pc = "epilogue"]
                ELSE [fr EXCEPT !.rho_prev = fr.rho, !.rho = rho, !.pc = "p"]
    /\ UNCHANGED <<sys, harness_vars, ret, runs>>

\* the p update without the "if (iter == 0)" case: beta and the recurrence
\* at every loop index
S_PUpdate_NoFirstIterCase ==
    /\ InSerial("p")
    /\ LET beta == FMul(FDiv(fr.rho, fr.rho_prev), FDiv(fr.alpha, fr.omega))
       IN fr' = [fr EXCEPT !.beta = beta,
                           !.p = [i \in 0..(fr.n - 1) |->
                                     FAdd(fr.r[i],
                                          FMul(beta, FSub(fr.p[i], FMul(fr.omega, fr.v[i]))))],
                           !.pc = "v"]
    /\ UNCHANGED <<sys, harness_vars, ret, runs>>

\* lines 94-102: p = r (iter == 0) or p = r + beta*(p - omega*v)
S_PUpdate ==
    /\ InSerial("p")
    /\ LET beta == FMul(FDiv(fr.rho, fr.rho_prev), FDiv(fr.alpha, fr.omega))
       IN fr' = IF fr.iter = 0
                THEN [fr EXCEPT !.p = vector_copy(fr.r, fr.n), !.pc = "v"]
                ELSE [fr EXCEPT !.beta = beta,
                                !.p = [i \in 0..(fr.n - 1) |->
                                          FAdd(fr.r[i],
                                               FMul(beta, FSub(fr.p[i], FMul(fr.omega, fr.v[i]))))],
                                !.pc = "v"]
    /\ UNCHANGED <<sys, harness_vars, ret, runs>>

\* line 105: v = A*p
S_MatvecV ==
    /\ InSerial("v")
    /\ fr' = [fr EXCEPT !.v = matvec_csr(sys.A, fr.p), !.last.v = fr.iter, !.pc = "alpha"]
    /\ UNCHANGED <<sys, harness_vars, ret, runs>>

\* line 107: alpha = rho / dot(r0, v)
S_Alpha ==
    /\ InSerial("alpha")
    /\ fr' = [fr EXCEPT !.alpha = FDiv(fr.rho, dot_product(fr.r0, fr.v, fr.n)),
                        !.last.alpha = fr.iter, !.pc = "s"]
    /\ UNCHANGED <<sys, harness_vars, ret, runs>>

\* line 110: s = r - alpha*v
S_SUpdate ==
    /\ InSerial("s")
    /\ fr' = [fr EXCEPT !.s = vector_axpby(One, fr.r, FNeg(fr.alpha), fr.v, fr.n),
                        !.pc = "chk1"]
    /\ UNCHANGED <<sys, harness_vars, ret, runs>>

\* S_Check1 with the loop variable incremented before the break, as the second
\* check does
S_Check1_Increments ==
    /\ InSerial("chk1")
    /\ LET s_norm == vector_norm(fr.s, fr.n)
           hit == FLt(FDiv(s_norm, fr.bnorm), tol)
       IN /\ fr' = IF hit
                   THEN [fr EXCEPT !.s_norm = s_norm,
                                   !.out = Append(fr.out, Msg("converged", fr.iter + 1, 1)),
                                   !.iter = fr.iter + 1,
                                   !.pc = "epilogue"]
                   ELSE [fr EXCEPT !.s_norm = s_norm, !.pc = "t"]
          /\ sys' = IF hit
                    THEN [sys EXCEPT !.x = vector_axpy(fr.alpha, fr.p, sys.x, fr.n)]
                    ELSE sys
    /\ UNCHANGED <<harness_vars, ret, runs>>

\* lines 113-120: first convergence check; on success x = x + alpha*p and break
S_Check1 ==
    /\ InSerial("chk1")
    /\ LET s_norm == vector_norm(fr.s, fr.n)
           hit == FLt(FDiv(s_norm, fr.bnorm), tol)
       IN /\ fr' = IF hit
                   THEN [fr EXCEPT !.s_norm = s_norm,
                                   !.out = Append(fr.out, Msg("converged", fr.iter + 1, 1)),
                                   !.pc = "epilogue"]
                   ELSE [fr EXCEPT !.s_norm = s_norm, !.pc = "t"]
          /\ sys' = IF hit
                    THEN [sys EXCEPT !.x = vector_axpy(fr.alpha, fr.p, sys.x, fr.n)]
                    ELSE sys
    /\ UNCHANGED <<harness_vars, ret, runs>>

\* line 123: t = A*s
S_MatvecT ==
    /\ InSerial("t")
    /\ fr' = [fr EXCEPT !.t = matvec_csr(sys.A, fr.s), !.pc = "omega"]
    /\ UNCHANGED <<sys, harness_vars, ret, runs>>

\* line 125: omega = dot(t, s) / dot(t, t)
S_Omega ==
    /\ InSerial("omega")
    /\ fr' = [fr EXCEPT !.omega = FDiv(dot_product(fr.t, fr.s, fr.n),
                                       dot_product(fr.t, fr.t, fr.n)),
                        !.last.omega = fr.iter,
                        !.pc = "x"]
    /\ UNCHANGED <<sys, harness_vars, ret, runs>>

\* S_XUpdate with the two updates stored through b instead of x
S_XUpdate_IntoB ==
    /\ InSerial("x")
    /\ sys' = [sys EXCEPT !.b = vector_axpy(fr.omega, fr.s,
                                            vector_axpy(fr.alpha, fr.p, sys.x, fr.n), fr.n)]
    /\ fr' = [fr EXCEPT !.pc = "r"]
    /\ UNCHANGED <<harness_vars, ret, runs>>

\* lines 128-129: x = x + alpha*p, then x = x + omega*s
S_XUpdate ==
    /\ InSerial("x")
    /\ sys' = [sys EXCEPT !.x = vector_axpy(fr.omega, fr.s,
                                            vector_axpy(fr.alpha, fr.p, sys.x, fr.n), fr.n)]
    /\ fr' = [fr EXCEPT !.pc = "r"]
    /\ UNCHANGED <<harness_vars, ret, runs>>

\* line 132: r = s - omega*t
S_RUpdate ==
    /\ InSerial("r")
    /\ fr' = [fr EXCEPT !.r = vector_axpby(One, fr.s, FNeg(fr.omega), fr.t, fr.n),
                        !.pc = "chk2"]
    /\ UNCHANGED <<sys, harness_vars, ret, runs>>

\* lines 135-141: second convergence check; on success iter++ and break
S_Check2 ==
    /\ InSerial("chk2")
    /\ LET r_norm == vector_norm(fr.r, fr.n)
       IN fr' = IF FLt(FDiv(r_norm, fr.bnorm), tol)
                THEN [fr EXCEPT !.r_norm = r_norm,
                                !.out = Append(fr.out, Msg("converged", fr.iter + 1, 2)),
                                !.iter = fr.iter + 1,
                                !.pc = "epilogue"]
                ELSE [fr EXCEPT !.r_norm = r_norm, !.pc = "omega_chk"]
    /\ UNCHANGED <<sys, harness_vars, ret, runs>>

\* S_OmegaCheck with the iter++ of the loop header left out
S_OmegaCheck_NoIncrement ==
    /\ InSerial("omega_chk")
    /\ fr' = IF FLt(FAbs(fr.omega), Eps30)
             THEN [fr EXCEPT !.out = Append(fr.out, Msg("omega breakdown", fr.iter, 0)),
                             !.pc = "epilogue"]
             ELSE [fr EXCEPT !.pc = "loop"]
    /\ UNCHANGED <<sys, harness_vars, ret, runs>>

\* S_OmegaCheck with the loop variable incremented before the break
S_OmegaCheck_IncrBeforeBreak ==
    /\ InSerial("omega_chk")
    /\ fr' = IF FLt(FAbs(fr.omega), Eps30)
             THEN [fr EXCEPT !.out = Append(fr.out, Msg("omega breakdown", fr.iter, 0)),
                             !.iter = fr.iter + 1,
                             !.pc = "epilogue"]
             ELSE [fr EXCEPT !.iter = fr.iter + 1, !.pc = "loop"]
    /\ UNCHANGED <<sys, harness_vars, ret, runs>>

\* lines 143-147 and the iter++ of line 85: omega breakdown test, else next iteration
S_OmegaCheck ==
    /\ InSerial("omega_chk")
    /\ fr' = IF FLt(FAbs(fr.omega), Eps30)
             THEN [fr EXCEPT !.out = Append(fr.out, Msg("omega breakdown", fr.iter, 0)),
                             !.pc = "epilogue"]
             ELSE [fr EXCEPT !.iter = fr.iter + 1, !.pc = "loop"]
    /\ UNCHANGED <<sys, harness_vars, ret, runs>>

\* the epilogue without free(t)
S_Epilogue_LeaksT ==
    /\ InSerial("epilogue")
    /\ serial_time' = "elapsed"
    /\ fr' = [fr EXCEPT !.r = NoVec, !.r0 = NoVec, !.p = NoVec,
                        !.v = NoVec, !.s = NoVec,
                        !.pc = "return"]
    /\ UNCHANGED <<sys, max_iter, tol, thread_counts, omp, kc, fem, hpc, cfg, iter_serial,
                   iter_parallel, parallel_time, stdout, ret, runs>>

\* lines 150-159: *solve_time = elapsed, free the six working vectors
S_Epilogue ==
    /\ InSerial("epilogue")
    /\ serial_time' = "elapsed"
    /\ fr' = [fr EXCEPT !.r = NoVec, !.r0 = NoVec, !.p = NoVec,
                        !.v = NoVec, !.s = NoVec, !.t = NoVec,
                        !.pc = "return"]
    /\ UNCHANGED <<sys, max_iter, tol, thread_counts, omp, kc, fem, hpc, cfg, iter_serial,
                   iter_parallel, parallel_time, stdout, ret, runs>>

\* the record of a finished call: which solver, the worker count, the value
\* returned, x on return, the messages printed, the final loop variable, and
\* whether every reduction gave the value the serial dot product gives
RunRecord(f, value, out) ==
    [fn |-> f.fn, num_threads |-> f.num_threads, ret |-> value, x |-> sys.x,
     out |-> out, iter |-> f.iter, agree |-> f.agree]

\* S_Return with the test iter > max_iter
S_Return_StrictTest ==
    /\ InSerial("return")
    /\ LET fail == fr.iter > max_iter
           value == IF fail THEN -1 ELSE fr.iter
           out == IF fail THEN Append(fr.out, Msg("did not converge", max_iter, 0))
                          ELSE fr.out
       IN /\ ret' = value
          /\ runs' = Append(runs, RunRecord(fr, value, out))
    /\ fr' = NoFrame
    /\ hpc' = "serial_after"
    /\ UNCHANGED <<sys, max_iter, tol, thread_counts, omp, kc, fem, cfg, iter_serial, iter_parallel,
                   serial_time, parallel_time, stdout>>

\* S_Return without the iter >= max_iter test
S_Return_NoSentinel ==
    /\ InSerial("return")
    /\ ret' = fr.iter
    /\ runs' = Append(runs, RunRecord(fr, fr.iter, fr.out))
    /\ fr' = NoFrame
    /\ hpc' = "serial_after"
    /\ UNCHANGED <<sys, max_iter, tol, thread_counts, omp, kc, fem, cfg, iter_serial, iter_parallel,
                   serial_time, parallel_time, stdout>>

\* lines 161-166: return -1 if iter >= max_iter, else iter
S_Return ==
    /\ InSerial("return")
    /\ LET fail == fr.iter >= max_iter
           value == IF fail THEN -1 ELSE fr.iter
           out == IF fail THEN Append(fr.out, Msg("did not converge", max_iter, 0))
                          ELSE fr.out
       IN /\ ret' = value
          /\ runs' = Append(runs, RunRecord(fr, value, out))
    /\ fr' = NoFrame
    /\ hpc' = "serial_after"
    /\ UNCHANGED <<sys, max_iter, tol, thread_counts, omp, kc, fem, cfg, iter_serial, iter_parallel,
                   serial_time, parallel_time, stdout>>

bicgstab_serial ==
    \/ S_Setup \/ S_LoopTest \/ S_Rho \/ S_PUpdate \/ S_MatvecV \/ S_Alpha
    \/ S_SUpdate \/ S_Check1 \/ S_MatvecT \/ S_Omega \/ S_XUpdate \/ S_RUpdate
    \/ S_Check2 \/ S_OmegaCheck \/ S_Epilogue \/ S_Return

\* ------------------------------------------------------------------------
\* bicgstab_parallel
\* ------------------------------------------------------------------------
InParallel(pc) == fr.fn = "parallel" /\ fr.pc = pc

\* lines 236-275: set the team size, allocate, r = b, r0 = 1, p = r, scalars,
\* bnorm, iter = 0
P_Setup ==
    /\ InParallel("setup")
    /\ \E bn \in NormResults(sys.b, sys.n, fr.num_threads) :
         LET n == sys.n
             T == fr.num_threads
             r == vector_copy_parallel(sys.b, n, T)
         IN fr' = [fr EXCEPT !.n = n,
                             !.r = r,
                             !.r0 = [i \in 0..(n - 1) |-> One],
                             !.p = vector_copy_parallel(r, n, T),
                             !.v = Malloc(n), !.s = Malloc(n), !.t = Malloc(n),
                             !.rho = One, !.alpha = One, !.omega = One,
                             !.bnorm = IF FEq(bn, 0) THEN One ELSE bn,
                             !.iter = 0,
                             !.agree = (bn = vector_norm(sys.b, n)),
                             !.pc = "loop"]
    /\ UNCHANGED <<sys, harness_vars, ret, runs>>

\* line 275: the loop condition iter < max_iter
P_LoopTest ==
    /\ InParallel("loop")
    /\ fr' = [fr EXCEPT !.pc = IF fr.iter < max_iter THEN "rho" ELSE "epilogue"]
    /\ UNCHANGED <<sys, harness_vars, ret, runs>>

\* lines 276-282: rho_prev = rho, rho = dot(r0, r), rho breakdown test
P_Rho ==
    /\ InParallel("rho")
    /\ \E rho \in DotResults(fr.r0, fr.r, fr.n, fr.num_threads) :
         LET ag == fr.agree /\ rho = dot_product(fr.r0, fr.r, fr.n)
         IN fr' = IF FLt(FAbs(rho), Eps30)
                  THEN [fr EXCEPT !.rho_prev = fr.rho, !.rho = rho, !.agree = ag,
                                  !.out = Append(fr.out, Msg("rho breakdown", fr.iter, 0)),
                                  !.pc = "epilogue"]
                  ELSE [fr EXCEPT !.rho_prev = fr.rho, !.rho = rho, !.agree = ag,
                                  !.pc = "p"]
    /\ UNCHANGED <<sys, harness_vars, ret, runs>>

\* lines 284-293: p = r (iter == 0) or p = r + beta*(p - omega*v)
P_PUpdate ==
    /\ InParallel("p")
    /\ LET beta == FMul(FDiv(fr.rho, fr.rho_prev), FDiv(fr.alpha, fr.omega))
       IN fr' = IF fr.iter = 0
                THEN [fr EXCEPT !.p = vector_copy_parallel(fr.r, fr.n, fr.num_threads),
                                !.pc = "v"]
                ELSE [fr EXCEPT !.beta = beta,
                                !.p = [i \in 0..(fr.n - 1) |->
                                          FAdd(fr.r[i],
                                               FMul(beta, FSub(fr.p[i], FMul(fr.omega, fr.v[i]))))],
                                !.pc = "v"]
    /\ UNCHANGED <<sys, harness_vars, ret, runs>>

\* line 296: v = A*p
P_MatvecV ==
    /\ InParallel("v")
    /\ fr' = [fr EXCEPT !.v = matvec_csr_parallel(sys.A, fr.p, fr.num_threads),
                        !.last.v = fr.iter,
                        !.pc = "alpha"]
    /\ UNCHANGED <<sys, harness_vars, ret, runs>>

\* line 298: alpha = rho / dot(r0, v)
P_Alpha ==
    /\ InParallel("alpha")
    /\ \E d \in DotResults(fr.r0, fr.v, fr.n, fr.num_threads) :
         fr' = [fr EXCEPT !.alpha = FDiv(fr.rho, d),
                          !.agree = fr.agree /\ d = dot_product(fr.r0, fr.v, fr.n),
                          !.last.alpha = fr.iter,
                          !.pc = "s"]
    /\ UNCHANGED <<sys, harness_vars, ret, runs>>

\* line 301: s = r - alpha*v
P_SUpdate ==
    /\ InParallel("s")
    /\ fr' = [fr EXCEPT !.s = vector_axpby_parallel(One, fr.r, FNeg(fr.alpha), fr.v,
                                                    fr.n, fr.num_threads),
                        !.pc = "chk1"]
    /\ UNCHANGED <<sys, harness_vars, ret, runs>>

\* lines 304-310: first convergence check; on success x = x + alpha*p and break
P_Check1 ==
    /\ InParallel("chk1")
    /\ \E s_norm \in NormResults(fr.s, fr.n, fr.num_threads) :
         LET ag == fr.agree /\ s_norm = vector_norm(fr.s, fr.n)
             hit == FLt(FDiv(s_norm, fr.bnorm), tol)
         IN /\ fr' = IF hit
                     THEN [fr EXCEPT !.s_norm = s_norm, !.agree = ag,
                                     !.out = Append(fr.out, Msg("converged", fr.iter + 1, 1)),
                                     !.pc = "epilogue"]
                     ELSE [fr EXCEPT !.s_norm = s_norm, !.agree = ag, !.pc = "t"]
            /\ sys' = IF hit
                      THEN [sys EXCEPT !.x = vector_axpy_parallel(fr.alpha, fr.p, sys.x,
                                                                  fr.n, fr.num_threads)]
                      ELSE sys
    /\ UNCHANGED <<harness_vars, ret, runs>>

\* line 313: t = A*s
P_MatvecT ==
    /\ InParallel("t")
    /\ fr' = [fr EXCEPT !.t = matvec_csr_parallel(sys.A, fr.s, fr.num_threads),
                        !.pc = "omega"]
    /\ UNCHANGED <<sys, harness_vars, ret, runs>>

\* line 315: omega = dot(t, s) / dot(t, t)
P_Omega ==
    /\ InParallel("omega")
    /\ \E ts \in DotResults(fr.t, fr.s, fr.n, fr.num_threads),
          tt \in DotResults(fr.t, fr.t, fr.n, fr.num_threads) :
         fr' = [fr EXCEPT !.omega = FDiv(ts, tt),
                          !.agree = /\ fr.agree
                                    /\ ts = dot_product(fr.t, fr.s, fr.n)
                                    /\ tt = dot_product(fr.t, fr.t, fr.n),
                          !.last.omega = fr.iter,
                          !.pc = "x"]
    /\ UNCHANGED <<sys, harness_vars, ret, runs>>

\* lines 318-319: x = x + alpha*p, then x = x + omega*s
P_XUpdate ==
    /\ InParallel("x")
    /\ sys' = [sys EXCEPT !.x =
                  vector_axpy_parallel(fr.omega, fr.s,
                      vector_axpy_parallel(fr.alpha, fr.p, sys.x, fr.n, fr.num_threads),
                      fr.n, fr.num_threads)]
    /\ fr' = [fr EXCEPT !.pc = "r"]
    /\ UNCHANGED <<harness_vars, ret, runs>>

\* line 322: r = s - omega*t
P_RUpdate ==
    /\ InParallel("r")
    /\ fr' = [fr EXCEPT !.r = vector_axpby_parallel(One, fr.s, FNeg(fr.omega), fr.t,
                                                    fr.n, fr.num_threads),
                        !.pc = "chk2"]
    /\ UNCHANGED <<sys, harness_vars, ret, runs>>

\* P_Check2 without the iter++ before the break
P_Check2_NoIncrement ==
    /\ InParallel("chk2")
    /\ \E r_norm \in NormResults(fr.r, fr.n, fr.num_threads) :
         LET ag == fr.agree /\ r_norm = vector_norm(fr.r, fr.n)
         IN fr' = IF FLt(FDiv(r_norm, fr.bnorm), tol)
                  THEN [fr EXCEPT !.r_norm = r_norm, !.agree = ag,
                                  !.out = Append(fr.out, Msg("converged", fr.iter + 1, 2)),
                                  !.pc = "epilogue"]
                  ELSE [fr EXCEPT !.r_norm = r_norm, !.agree = ag, !.pc = "omega_chk"]
    /\ UNCHANGED <<sys, harness_vars, ret, runs>>

\* lines 325-331: second convergence check; on success iter++ and break
P_Check2 ==
    /\ InParallel("chk2")
    /\ \E r_norm \in NormResults(fr.r, fr.n, fr.num_threads) :
         LET ag == fr.agree /\ r_norm = vector_norm(fr.r, fr.n)
         IN fr' = IF FLt(FDiv(r_norm, fr.bnorm), tol)
                  THEN [fr EXCEPT !.r_norm = r_norm, !.agree = ag,
                                  !.out = Append(fr.out, Msg("converged", fr.iter + 1, 2)),
                                  !.iter = fr.iter + 1,
                                  !.pc = "epilogue"]
                  ELSE [fr EXCEPT !.r_norm = r_norm, !.agree = ag, !.pc = "omega_chk"]
    /\ UNCHANGED <<sys, harness_vars, ret, runs>>

\* lines 333-337 and the iter++ of line 275: omega breakdown test, else next iteration
P_OmegaCheck ==
    /\ InParallel("omega_chk")
    /\ fr' = IF FLt(FAbs(fr.omega), Eps30)
             THEN [fr EXCEPT !.out = Append(fr.out, Msg("omega breakdown", fr.iter, 0)),
                             !.pc = "epilogue"]
             ELSE [fr EXCEPT !.iter = fr.iter + 1, !.pc = "loop"]
    /\ UNCHANGED <<sys, harness_vars, ret, runs>>

\* lines 340-349: *solve_time = elapsed, free the six working vectors
P_Epilogue ==
    /\ InParallel("epilogue")
    /\ parallel_time' = "elapsed"
    /\ fr' = [fr EXCEPT !.r = NoVec, !.r0 = NoVec, !.p = NoVec,
                        !.v = NoVec, !.s = NoVec, !.t = NoVec,
                        !.pc = "return"]
    /\ UNCHANGED <<sys, max_iter, tol, thread_counts, omp, kc, fem, hpc, cfg, iter_serial,
                   iter_parallel, serial_time, stdout, ret, runs>>

\* lines 351-356: return -1 if iter >= max_iter, else iter
P_Return ==
    /\ InParallel("return")
    /\ LET fail == fr.iter >= max_iter
           value == IF fail THEN -1 ELSE fr.iter
           out == IF fail THEN Append(fr.out, Msg("did not converge", max_iter, 0))
                          ELSE fr.out
       IN /\ ret' = value
          /\ runs' = Append(runs, RunRecord(fr, value, out))
    /\ fr' = NoFrame
    /\ hpc' = "par_after"
    /\ UNCHANGED <<sys, max_iter, tol, thread_counts, omp, kc, fem, cfg, iter_serial, iter_parallel,
                   serial_time, parallel_time, stdout>>

bicgstab_parallel ==
    \/ P_Setup \/ P_LoopTest \/ P_Rho \/ P_PUpdate \/ P_MatvecV \/ P_Alpha
    \/ P_SUpdate \/ P_Check1 \/ P_MatvecT \/ P_Omega \/ P_XUpdate \/ P_RUpdate
    \/ P_Check2 \/ P_OmegaCheck \/ P_Epilogue \/ P_Return

\* ------------------------------------------------------------------------
\* run_benchmark (main.c)
\* ------------------------------------------------------------------------
\* the loop "residual += diff * diff" of verify_solution, entered with residual
RECURSIVE ResidualLoop(_, _, _, _, _)
ResidualLoop(b, Ax, i, n, residual) ==
    IF i >= n THEN residual
    ELSE LET diff == FSub(b[i], Ax[i])
         IN ResidualLoop(b, Ax, i + 1, n, FAdd(residual, FMul(diff, diff)))

\* the residual norm ||b - Ax|| that verify_solution prints
verify_solution(sy) ==
    FSqrt(ResidualLoop(sy.b, matvec_csr(sy.A, sy.x), 0, sy.n, 0))

\* lines 53-56: memset x to zero and call bicgstab_serial
H_CallSerial ==
    /\ hpc = "serial_call"
    /\ sys' = [sys EXCEPT !.x = Zeros(sys.n)]
    /\ fr' = Entry("serial", 0)
    /\ hpc' = "serial_run"
    /\ UNCHANGED <<max_iter, tol, thread_counts, omp, kc, fem, cfg, iter_serial, iter_parallel,
                   serial_time, parallel_time, stdout, ret, runs>>

\* lines 56-61: iter_serial = the value returned; report time and residual if > 0
H_AfterSerial ==
    /\ hpc = "serial_after"
    /\ iter_serial' = ret
    /\ stdout' = IF ret > 0
                 THEN Append(stdout, [who |-> "serial", threads |-> 0,
                                      residual |-> verify_solution(sys)])
                 ELSE stdout
    /\ cfg' = 0
    /\ hpc' = "par_loop"
    /\ UNCHANGED <<sys, max_iter, tol, thread_counts, omp, kc, fem, iter_parallel, serial_time,
                   parallel_time, fr, ret, runs>>

\* lines 71-78: next configuration: memset x to zero, a fresh parallel_time, and
\* call bicgstab_parallel
H_CallParallel ==
    /\ hpc = "par_loop"
    /\ cfg < Len(thread_counts)
    /\ sys' = [sys EXCEPT !.x = Zeros(sys.n)]
    /\ fr' = Entry("parallel", thread_counts[cfg + 1])
    /\ parallel_time' = "unset"
    /\ hpc' = "par_run"
    /\ UNCHANGED <<max_iter, tol, thread_counts, omp, kc, fem, cfg, iter_serial, iter_parallel,
                   serial_time, stdout, ret, runs>>

\* lines 78-87: iter_parallel = the value returned; report the timing row if > 0; i++
H_AfterParallel ==
    /\ hpc = "par_after"
    /\ iter_parallel' = ret
    /\ stdout' = IF ret > 0
                 THEN Append(stdout, [who |-> "parallel", threads |-> thread_counts[cfg + 1],
                                      residual |-> 0])
                 ELSE stdout
    /\ cfg' = cfg + 1
    /\ hpc' = "par_loop"
    /\ UNCHANGED <<sys, max_iter, tol, thread_counts, omp, kc, fem, iter_serial, serial_time,
                   parallel_time, fr, ret, runs>>

\* lines 71 and 90: the loop over the configurations ends
H_Finish ==
    /\ hpc = "par_loop"
    /\ cfg >= Len(thread_counts)
    /\ hpc' = "done"
    /\ UNCHANGED <<sys, max_iter, tol, thread_counts, omp, kc, fem, cfg, iter_serial, iter_parallel,
                   serial_time, parallel_time, stdout, fr, ret, runs>>

run_benchmark ==
    \/ H_CallSerial \/ H_AfterSerial \/ H_CallParallel \/ H_AfterParallel \/ H_Finish

Next == run_benchmark \/ bicgstab_serial \/ bicgstab_parallel

Spec == Init /\ [][Next]_vars

\* the benchmark on the systems of dimension 3 whose right-hand side has no
\* negative entry, at the tightest tolerance, with the largest team
LiveInit ==
    /\ Init
    /\ sys.n = 3
    /\ \A i \in 0..(sys.n - 1) : sys.b[i] >= 0
    /\ tol = 1
    /\ thread_counts[1] = MaxThreads

\* the program is sequential and runs on: a step that is enabled is taken
LiveSpec == LiveInit /\ [][Next]_vars /\ WF_vars(Next)

\* ------------------------------------------------------------------------
\* Observations on finished calls
\* ------------------------------------------------------------------------
Breakdowns == {"rho breakdown", "omega breakdown"}

\* the call left its loop through a break: the first message it printed
Broke(rn) == Len(rn.out) > 0 /\ rn.out[1].kind # "did not converge"

\* a convergence check of the call passed (check 1 or 2), at loop index k
ConvergedBy(rn, check, k) ==
    /\ Broke(rn)
    /\ rn.out[1].kind = "converged"
    /\ rn.out[1].check = check
    /\ rn.out[1].at = k + 1

Converged(rn) == \E check \in {1, 2}, k \in 0..MaxIter : ConvergedBy(rn, check, k)

\* a rho or omega breakdown fired at loop index k
BrokeDownAt(rn, k) ==
    /\ Broke(rn)
    /\ rn.out[1].kind \in Breakdowns
    /\ rn.out[1].at = k

\* the loop ran to iter = max_iter with no check passing and no breakdown
Exhausted(rn) == ~Broke(rn) /\ rn.iter = max_iter

Finished == {runs[i] : i \in 1..Len(runs)}

BIsZero == \A i \in 0..(sys.n - 1) : sys.b[i] = 0

\* the steps of one loop iteration
BodyPcs == {"rho", "p", "v", "alpha", "s", "chk1", "t", "omega", "x", "r", "chk2",
            "omega_chk"}

\* ------------------------------------------------------------------------
\* Claims
\* ------------------------------------------------------------------------
\* C1: whenever a convergence check (first or second) passes in some
\* iteration, the call returns a non-negative iteration count, never -1.
C1_ConvergenceReturnsCount ==
    \A rn \in Finished : Converged(rn) => rn.ret >= 0

\* C2: when the first convergence check passes at loop index k the call
\* returns k + 1, so a converged call returns a count > 0 and the driver
\* reports it.
C2_FirstCheckReturnsKPlus1 ==
    \A rn \in Finished : \A k \in 0..MaxIter :
        ConvergedBy(rn, 1, k) => rn.ret = k + 1 /\ rn.ret > 0

\* C3: a call whose loop runs all max_iter iterations with no convergence
\* check passing and no breakdown returns the failure sentinel -1.
C3_ExhaustionReturnsSentinel ==
    \A rn \in Finished : Exhausted(rn) => rn.ret = -1

C3_Witness ==
    \E rn \in Finished : Exhausted(rn) /\ max_iter >= 2 /\ rn.ret = -1

C5_BreakdownReturnsIndex ==
    /\ \A k \in 0..MaxIter :
          (fr.fn # "none" /\ BrokeDownAt(fr, k)) =>
              fr.pc \in {"epilogue", "return"} /\ fr.iter = k /\ Len(fr.out) = 1
    /\ \A rn \in Finished : \A k \in 0..MaxIter :
          BrokeDownAt(rn, k) => rn.ret = k /\ rn.ret >= 0 /\ Len(rn.out) = 1

C5_Witness ==
    /\ \E rn \in Finished : BrokeDownAt(rn, 1) /\ rn.out[1].kind = "omega breakdown" /\ rn.ret = 1
    /\ ~BIsZero

\* C6 as stated: with b = 0 every call returns 0 or 1 and leaves x zero.
C6_ZeroRhsReturns0Or1 ==
    BIsZero => \A rn \in Finished : rn.ret \in {0, 1} /\ rn.x = Zeros(sys.n)

\* C6 amended: with b = 0 the call stops at loop index 0 with x still zero;
\* it returns 0 (rho breakdown in the first iteration) when max_iter >= 1 and
\* the sentinel -1 when max_iter = 0.
C6_ZeroRhsStopsAtZero ==
    BIsZero =>
        /\ sys.x = Zeros(sys.n)
        /\ \A rn \in Finished :
              /\ rn.x = Zeros(sys.n)
              /\ rn.iter = 0
              /\ rn.ret = IF max_iter >= 1 THEN 0 ELSE -1
              /\ max_iter >= 1 => BrokeDownAt(rn, 0)

C6_Witness ==
    /\ BIsZero
    /\ max_iter >= 1
    /\ \E rn \in Finished : rn.fn = "parallel" /\ rn.num_threads = MaxThreads /\ rn.ret = 0

\* C7: every solver call terminates and returns a value: the loop variable
\* never exceeds max_iter and a loop-body step runs only while iter < max_iter,
\* a call in progress eventually returns, and a call returns only after the
\* epilogue has written *solve_time and freed the working vectors; the value
\* returned is -1 or a count.
C7_CallInProgress == fr.fn # "none"

C7_Bounded ==
    /\ fr.iter <= max_iter
    /\ fr.pc \in BodyPcs => fr.iter < max_iter
    /\ fr.pc = "return" =>
          /\ (IF fr.fn = "serial" THEN serial_time ELSE parallel_time) = "elapsed"
          /\ fr.r = NoVec /\ fr.r0 = NoVec /\ fr.p = NoVec
          /\ fr.v = NoVec /\ fr.s = NoVec /\ fr.t = NoVec
    /\ \A rn \in Finished : rn.ret \in (-1)..max_iter

C7_Terminates ==
    /\ []C7_Bounded
    /\ (C7_CallInProgress ~> ~C7_CallInProgress)
    /\ <>(hpc = "done")

C7_Witness ==
    /\ hpc = "done"
    /\ Len(runs) = 3
    /\ max_iter = MaxIter
    /\ \E rn \in Finished : rn.fn = "serial" /\ Exhausted(rn)
    /\ \E rn \in Finished : rn.fn = "parallel" /\ Broke(rn)

\* the finished calls of bicgstab_parallel
ParallelRuns == {rn \in Finished : rn.fn = "parallel"}

\* C8: bicgstab_parallel is the same state machine as bicgstab_serial: on the
\* same A, b, zeroed x, max_iter and tol, with any worker count, a parallel call
\* in which every reduction gave the value the serial kernel gives returns what
\* the serial call returned, leaves the same x, leaves its loop at the same
\* index and prints the same messages.
C8_SameStateMachine ==
    \A rn \in ParallelRuns :
        rn.agree => /\ rn.ret = runs[1].ret
                    /\ rn.x = runs[1].x
                    /\ rn.iter = runs[1].iter
                    /\ rn.out = runs[1].out

C8_Witness ==
    \E rn \in ParallelRuns :
        /\ rn.agree
        /\ rn.num_threads = MaxThreads
        /\ ConvergedBy(rn, 2, 0)
        /\ rn.ret = 1

\* C9 as claimed: two calls of bicgstab_parallel on the same A, b, max_iter,
\* tol and worker count, each from a zeroed x, return the same value, whatever
\* the order in which the partial sums of the reductions are combined.
C9_SameCountAtFixedThreads ==
    \A a, b \in ParallelRuns : a.num_threads = b.num_threads => a.ret = b.ret

\* C9 as the code has it: with at most two workers two such calls return the
\* same value, leave the same x and print the same messages (the sum of two
\* partial sums does not depend on the order).
C9_SameCountUpToTwoThreads ==
    \A a, b \in ParallelRuns :
        a.num_threads = b.num_threads /\ a.num_threads <= 2
            => a.ret = b.ret /\ a.x = b.x /\ a.out = b.out

C9_Witness ==
    /\ Len(runs) = 3
    /\ runs[2].num_threads = 2 /\ runs[3].num_threads = 2
    /\ Converged(runs[2]) /\ runs[2].ret >= 1
    /\ runs[3].ret = runs[2].ret

\* C10: the value returned does not tell convergence from breakdown: a call
\* that converges through the first check at loop index k and a call that
\* stops on a rho or omega breakdown at loop index k both return k.
C10_SameValueForBoth ==
    \A rn \in Finished : \A k \in 0..MaxIter :
        ConvergedBy(rn, 1, k) \/ BrokeDownAt(rn, k) => rn.ret = k

C10_Witness ==
    \E a, b \in Finished : \E k \in 0..MaxIter :
        /\ ConvergedBy(a, 1, k)
        /\ BrokeDownAt(b, k)
        /\ a.ret = b.ret

\* the identity matrix in CSR form: row_ptr[i] = i, col_idx[i] = i, values[i] = 1
IsIdentityCSR(A) ==
    /\ A.nnz = A.n
    /\ A.row_ptr[A.n] = A.n
    /\ \A i \in 0..(A.n - 1) :
          A.row_ptr[i] = i /\ A.col_idx[i] = i /\ A.values[i] = One

\* C11: for the identity matrix in CSR form matvec_csr and matvec_csr_parallel
\* write y[i] = x[i] for every i: after "v = A*p" v is p and after "t = A*s" t
\* is s, in both solvers, whatever v and t held before (malloc's content in
\* the first iteration, the previous iteration's product afterwards).
C11_IdentityMatvec ==
    IsIdentityCSR(sys.A) =>
        /\ fr.pc = "alpha" => fr.v = fr.p
        /\ fr.pc = "omega" => fr.t = fr.s

C11_Witness ==
    /\ IsIdentityCSR(sys.A)
    /\ fr.fn = "parallel" /\ fr.num_threads = MaxThreads
    /\ fr.pc = "omega" /\ fr.iter = 1
    /\ fr.t = fr.s
    /\ \E i \in 0..(fr.n - 1) : fr.s[i] # 0

\* the entries r[lo..hi-1] added to sum, in index order
RECURSIVE SumLoop(_, _, _, _)
SumLoop(r, i, hi, sum) ==
    IF i >= hi THEN sum ELSE SumLoop(r, i + 1, hi, FAdd(sum, r[i]))

\* the sum of the entries of r as a loop over 0..n-1 adds them
SumOfEntries(r, n) == SumLoop(r, 0, n, 0)

\* the sums of the entries of r that a team of T workers can produce: each
\* worker adds its block, the block sums are added in some order
TeamSumsOfEntries(r, n, T) ==
    {Combine([w \in 0..(T - 1) |-> SumLoop(r, ChunkLo(n, T, w), ChunkHi(n, T, w), 0)],
             ord, 1, 0) : ord \in Orders(T)}

\* rho holds the value assigned at loop index 0
RhoOfIndex0 ==
    /\ fr.fn # "none"
    /\ fr.iter = 0
    /\ \/ fr.pc \in BodyPcs \ {"rho"}
       \/ fr.pc = "epilogue" /\ fr.out # << >> /\ fr.out[1].kind = "rho breakdown"

\* C12: r0 is the all-ones vector, so the value assigned to rho at loop index 0
\* is the sum of the entries of r, which are the entries of b: the sum as a
\* loop adds them (serial), or as the team adds them (parallel).
C12_RhoIsSumOfB ==
    RhoOfIndex0 =>
        /\ \A i \in 0..(fr.n - 1) : fr.r0[i] = One
        /\ fr.fn = "serial" => fr.rho = SumOfEntries(sys.b, sys.n)
        /\ fr.fn = "parallel" =>
              fr.rho \in TeamSumsOfEntries(sys.b, sys.n, fr.num_threads)

C12_Witness ==
    /\ RhoOfIndex0
    /\ fr.fn = "parallel" /\ fr.num_threads = MaxThreads
    /\ fr.pc = "p"
    /\ fr.rho = SumOfEntries(sys.b, sys.n)
    /\ fr.rho # sys.b[0]
    /\ \A i \in 0..(sys.n - 1) : sys.b[i] # 0

\* the caller's data other than x and the two solve_time variables
CallerData ==
    <<sys.A, sys.b, sys.n, max_iter, tol, thread_counts, cfg, iter_serial,
      iter_parallel, stdout>>

\* C13: a step of a solver call leaves the matrix (values, col_idx, row_ptr, n,
\* nnz), the right-hand side b and the caller's other data as they were; of
\* the caller's data it writes only x and its own *solve_time (a serial call
\* never parallel_time, a parallel call never serial_time).
C13_SolveWritesOnlyX ==
    [][fr.fn # "none" =>
          /\ CallerData' = CallerData
          /\ fr.fn = "serial" => parallel_time' = parallel_time
          /\ fr.fn = "parallel" => serial_time' = serial_time]_vars

C13_Witness ==
    /\ Len(runs) = 3
    /\ ConvergedBy(runs[1], 1, 0)
    /\ \E rn \in Finished : BrokeDownAt(rn, 0)
    /\ \E i \in 0..(sys.n - 1) : runs[1].x[i] # 0
    /\ serial_time = "elapsed" /\ parallel_time = "elapsed"

\* ------------------------------------------------------------------------
\* One kernel call, worker by worker
\*
\* "#pragma omp parallel for" hands each index of the loop to exactly one
\* worker of the team; which worker is the schedule's choice, so every map
\* from indices to workers is drawn.  A worker runs its indices in increasing
\* order; the workers interleave freely.  The team leaves through the
\* barrier that ends the construct.
\* ------------------------------------------------------------------------
\* the arrays passed at the two calls of matvec_csr_parallel: <<x, y>>
MatvecCalls_InPlace == {<<"p", "p">>, <<"s", "s">>}

MatvecCalls == {<<"p", "v">>, <<"s", "t">>}

\* the arrays passed at calls of dot_product_parallel: <<a, b>>
DotCalls == {<<"r0", "r">>, <<"t", "t">>}

\* the schedules: every assignment of the n indices to the T workers
Partitions(n, T) == [0..(n - 1) -> 0..(T - 1)]

\* the arrays as a call finds them: r0 is all ones, the output of a matvec is
\* what malloc returned, every other array holds the right-hand side
ArraysAtCall(kernel, args) ==
    [nm \in {args[1], args[2]} |->
        IF kernel = "matvec" /\ nm = args[2] /\ args[1] # args[2] THEN Malloc(sys.n)
        ELSE IF nm = "r0" THEN [i \in 0..(sys.n - 1) |-> One]
        ELSE sys.b]

\* the team forks: private copies of the reduction variable start at 0.0
K_Call(kernel, args, owner) ==
    /\ kc.kernel = "none"
    /\ kc' = [kernel |-> kernel, state |-> "forked", T |-> thread_counts[1],
              owner |-> owner, args |-> args, mem |-> ArraysAtCall(kernel, args),
              done |-> {}, stores |-> [i \in 0..(sys.n - 1) |-> 0], rd |-> {}, wr |-> {},
              part |-> [w \in 0..(thread_counts[1] - 1) |-> 0],
              terms |-> [i \in 0..(sys.n - 1) |-> 0],
              merged |-> [w \in 0..(thread_counts[1] - 1) |-> 0], sum |-> 0]
    /\ UNCHANGED <<sys, max_iter, tol, thread_counts, hpc, cfg, iter_serial,
                   iter_parallel, serial_time, parallel_time, stdout, fr, ret, runs, omp, fem>>

\* the indices of worker w that it has not run yet
Pending(w) == {i \in 0..(sys.n - 1) : kc.owner[i] = w /\ i \notin kc.done}

NextIndex(w) == CHOOSE i \in Pending(w) : \A k \in Pending(w) : i <= k

\* one iteration of the loop of matvec_csr_parallel, by worker w:
\* double sum = 0.0; sum += values[j] * x[col_idx[j]]; y[i] = sum
K_Row(w) ==
    /\ kc.kernel = "matvec" /\ kc.state = "forked"
    /\ Pending(w) # {}
    /\ LET i == NextIndex(w)
           x == kc.args[1]
           y == kc.args[2]
           sum == RowLoop(sys.A, kc.mem[x], sys.A.row_ptr[i], sys.A.row_ptr[i + 1], 0)
       IN kc' = [kc EXCEPT
                    !.mem[y][i] = sum,
                    !.done = @ \cup {i},
                    !.stores[i] = @ + 1,
                    !.rd = @ \cup {<<w, x, sys.A.col_idx[j]>> :
                                     j \in sys.A.row_ptr[i]..(sys.A.row_ptr[i + 1] - 1)},
                    !.wr = @ \cup {<<w, y, i>>}]
    /\ UNCHANGED <<sys, max_iter, tol, thread_counts, hpc, cfg, iter_serial,
                   iter_parallel, serial_time, parallel_time, stdout, fr, ret, runs, omp, fem>>

\* one iteration of the loop of dot_product_parallel, by worker w, on its
\* private copy of sum: sum += a[i] * b[i]
K_Term(w) ==
    /\ kc.kernel = "dot" /\ kc.state = "forked"
    /\ Pending(w) # {}
    /\ LET i == NextIndex(w)
           a == kc.args[1]
           b == kc.args[2]
       IN kc' = [kc EXCEPT
                    !.part[w] = FAdd(@, FMul(kc.mem[a][i], kc.mem[b][i])),
                    !.done = @ \cup {i},
                    !.terms[i] = @ + 1,
                    !.rd = @ \cup {<<w, a, i>>, <<w, b, i>>}]
    /\ UNCHANGED <<sys, max_iter, tol, thread_counts, hpc, cfg, iter_serial,
                   iter_parallel, serial_time, parallel_time, stdout, fr, ret, runs, omp, fem>>

\* the reduction without the combination: the worker stores its private copy
\* over the shared sum
K_Combine_Overwrite(w) ==
    /\ kc.kernel = "dot" /\ kc.state = "forked"
    /\ Pending(w) = {}
    /\ kc.merged[w] = 0
    /\ kc' = [kc EXCEPT !.sum = kc.part[w], !.merged[w] = @ + 1]
    /\ UNCHANGED <<sys, max_iter, tol, thread_counts, hpc, cfg, iter_serial,
                   iter_parallel, serial_time, parallel_time, stdout, fr, ret, runs, omp, fem>>

\* reduction(+:sum): a worker that has run its indices adds its private copy
\* to the shared sum, once, atomically with respect to the other workers
K_Combine(w) ==
    /\ kc.kernel = "dot" /\ kc.state = "forked"
    /\ Pending(w) = {}
    /\ kc.merged[w] = 0
    /\ kc' = [kc EXCEPT !.sum = FAdd(@, kc.part[w]), !.merged[w] = @ + 1]
    /\ UNCHANGED <<sys, max_iter, tol, thread_counts, hpc, cfg, iter_serial,
                   iter_parallel, serial_time, parallel_time, stdout, fr, ret, runs, omp, fem>>

\* the barrier at the end of the construct: every worker has run its indices
\* and, in a reduction, combined its private copy; the call returns
K_Join ==
    /\ kc.state = "forked"
    /\ \A w \in 0..(kc.T - 1) :
            Pending(w) = {} /\ (kc.kernel = "dot" => kc.merged[w] >= 1)
    /\ kc' = [kc EXCEPT !.state = "joined"]
    /\ UNCHANGED <<sys, max_iter, tol, thread_counts, hpc, cfg, iter_serial,
                   iter_parallel, serial_time, parallel_time, stdout, fr, ret, runs, omp, fem>>

KernelCall ==
    \/ \E args \in MatvecCalls, owner \in Partitions(sys.n, thread_counts[1]) :
            K_Call("matvec", args, owner)
    \/ \E args \in DotCalls, owner \in Partitions(sys.n, thread_counts[1]) :
            K_Call("dot", args, owner)

KernelNext ==
    \/ KernelCall
    \/ \E w \in 0..(MaxThreads - 1) : K_Row(w)
    \/ \E w \in 0..(MaxThreads - 1) : K_Term(w)
    \/ \E w \in 0..(MaxThreads - 1) : w < kc.T /\ K_Combine(w)
    \/ K_Join

\* the kernels are followed on the systems of three unknowns whose right-hand
\* side has no zero entry, called with each team size
KernelInit ==
    /\ Init
    /\ sys.n = 3
    /\ \A i \in 0..(sys.n - 1) : sys.b[i] # 0
    /\ max_iter = 0
    /\ tol = 1

KernelSpec == KernelInit /\ [][KernelNext]_vars

\* ------------------------------------------------------------------------
\* C15
\* ------------------------------------------------------------------------
\* the workers that stored to index i of the output array
WritersOf(i) == {w \in 0..(kc.T - 1) : <<w, kc.args[2], i>> \in kc.wr}

\* C15: in matvec_csr_parallel, for every team size and every assignment of
\* the rows to the workers, every y[i] is stored at most once while the team
\* runs and by one worker only, no worker reads a location that another worker
\* writes during the call, and once the team has joined every y[i] has been
\* stored exactly once and y is what the serial matvec_csr computes from the
\* same A and x, whatever the interleaving was
C15_MatvecRowsWrittenOnce ==
    kc.kernel = "matvec" =>
        /\ \A i \in 0..(sys.n - 1) :
                kc.stores[i] <= 1 /\ Cardinality(WritersOf(i)) = kc.stores[i]
        /\ \A r \in kc.rd, q \in kc.wr : (r[2] = q[2] /\ r[3] = q[3]) => r[1] = q[1]
        /\ kc.state = "joined" =>
                /\ \A i \in 0..(sys.n - 1) : kc.stores[i] = 1
                /\ kc.mem[kc.args[2]] = matvec_csr(sys.A, sys.b)

\* a team of MaxThreads has joined after a schedule that is not made of
\* contiguous blocks, on a matrix with off-diagonal entries
C15_Witness ==
    /\ kc.kernel = "matvec" /\ kc.state = "joined" /\ kc.T = MaxThreads
    /\ kc.owner[0] = kc.owner[2] /\ kc.owner[0] # kc.owner[1]
    /\ ~IsIdentityCSR(sys.A)
    /\ kc.mem[kc.args[2]] = matvec_csr(sys.A, sys.b)
    /\ \E i \in 0..(sys.n - 1) : kc.mem[kc.args[2]][i] \notin {0, sys.b[i]}
    /\ \E r \in kc.rd, q \in kc.wr : r[1] # q[1] /\ r[3] = q[3]

\* ------------------------------------------------------------------------
\* C16
\* ------------------------------------------------------------------------
\* the workers that read a[i] for their private sum
ContributorsOf(i) == {w \in 0..(kc.T - 1) : <<w, kc.args[1], i>> \in kc.rd}

\* every entry of a and b is -1, 0 or 1: every product and every sum of up to
\* n products is a double, so no addition rounds and the order cannot matter
ExactTerms ==
    \A i \in 0..(sys.n - 1) :
        /\ kc.mem[kc.args[1]][i] \in {-One, 0, One}
        /\ kc.mem[kc.args[2]][i] \in {-One, 0, One}

\* C16: in dot_product_parallel, for every team size and every assignment of
\* the indices to the workers, a[i]*b[i] is added to a private sum at most
\* once while the team runs, and only by the one worker that owns i; every
\* private sum is combined into the result at most once; once the team has
\* joined every index has contributed exactly once and every private sum has
\* been combined exactly once; and when no addition rounds the result is that
\* of the serial dot_product, whatever the order of combination was
C16_DotTermsCountedOnce ==
    kc.kernel = "dot" =>
        /\ \A i \in 0..(sys.n - 1) :
                /\ kc.terms[i] <= 1
                /\ Cardinality(ContributorsOf(i)) = kc.terms[i]
                /\ ContributorsOf(i) \subseteq {kc.owner[i]}
        /\ \A w \in 0..(kc.T - 1) : kc.merged[w] <= 1
        /\ kc.state = "joined" =>
                /\ \A i \in 0..(sys.n - 1) : kc.terms[i] = 1
                /\ \A w \in 0..(kc.T - 1) : kc.merged[w] = 1
                /\ ExactTerms =>
                      kc.sum = dot_product(kc.mem[kc.args[1]], kc.mem[kc.args[2]], sys.n)

\* a team of MaxThreads has joined after a schedule that is not made of
\* contiguous blocks, every worker holding a non-zero private sum, on entries
\* that add without rounding
C16_Witness ==
    /\ kc.kernel = "dot" /\ kc.state = "joined" /\ kc.T = MaxThreads
    /\ kc.owner[0] = kc.owner[2] /\ kc.owner[0] # kc.owner[1]
    /\ ExactTerms
    /\ kc.part[kc.owner[0]] # 0 /\ kc.part[kc.owner[1]] # 0
    /\ kc.sum # 0
    /\ kc.sum = dot_product(kc.mem[kc.args[1]], kc.mem[kc.args[2]], sys.n)

\* ------------------------------------------------------------------------
\* bicgstab_parallel, region by region
\*
\* Every kernel of bicgstab_parallel is one "#pragma omp parallel for": the
\* calling thread forks a team, each worker runs its share and arrives at the
\* barrier that ends the construct (no nowait clause anywhere), and the call
\* returns when the whole team has arrived.  The statements of the solver are
\* those of the P_ actions; here each of them waits for the kernel calls it
\* makes.
\* ------------------------------------------------------------------------
\* the kernel calls of each step of bicgstab_parallel, in program order; the
\* second call of the first convergence check is made only on convergence
KernelsOf(pc, iter) ==
    CASE pc = "setup" -> <<"vector_copy_parallel", "parallel for r0",
                           "vector_copy_parallel", "dot_product_parallel">>
      [] pc = "rho" -> <<"dot_product_parallel">>
      [] pc = "p" -> IF iter = 0 THEN <<"vector_copy_parallel">> ELSE <<"parallel for p">>
      [] pc = "v" -> <<"matvec_csr_parallel">>
      [] pc = "alpha" -> <<"dot_product_parallel">>
      [] pc = "s" -> <<"vector_axpby_parallel">>
      [] pc = "chk1" -> <<"dot_product_parallel", "vector_axpy_parallel">>
      [] pc = "t" -> <<"matvec_csr_parallel">>
      [] pc = "omega" -> <<"dot_product_parallel", "dot_product_parallel">>
      [] pc = "x" -> <<"vector_axpy_parallel", "vector_axpy_parallel">>
      [] pc = "r" -> <<"vector_axpby_parallel">>
      [] pc = "chk2" -> <<"dot_product_parallel">>
      [] OTHER -> << >>

\* the kernel calls of the current step that have returned
DoneHere ==
    Cardinality({e \in omp.log : e[1] = Len(runs) /\ e[2] = fr.iter /\ e[3] = fr.pc})

\* line 305: some order of combination makes s_norm / bnorm < tol
ConvergesAtCheck1 ==
    \E s_norm \in NormResults(fr.s, fr.n, fr.num_threads) :
        FLt(FDiv(s_norm, fr.bnorm), tol)

\* a construct without its barrier: the caller goes on while workers run
TeamJoined_NoWait == TRUE

\* the calling thread is past the barrier of every construct it entered
TeamJoined == omp.regions = {}

\* the calling thread enters the next "#pragma omp parallel for" of the step
R_Fork ==
    /\ fr.fn = "parallel"
    /\ TeamJoined
    /\ DoneHere < Len(KernelsOf(fr.pc, fr.iter))
    /\ (fr.pc = "chk1" /\ DoneHere = 1) => ConvergesAtCheck1
    /\ omp' = [omp EXCEPT !.regions = @ \cup
                  {[run |-> Len(runs), iter |-> fr.iter, pc |-> fr.pc, call |-> DoneHere + 1,
                    kernel |-> KernelsOf(fr.pc, fr.iter)[DoneHere + 1],
                    running |-> 0..(fr.num_threads - 1)]}]
    /\ UNCHANGED <<sys, max_iter, tol, thread_counts, hpc, cfg, iter_serial,
                   iter_parallel, serial_time, parallel_time, stdout, fr, ret, runs, kc, fem>>

\* worker w has run its share of the loop and arrives at the barrier
R_Finish(w) ==
    /\ \E g \in omp.regions :
         /\ w \in g.running
         /\ omp' = [omp EXCEPT !.regions =
                        (@ \ {g}) \cup {[g EXCEPT !.running = @ \ {w}]}]
    /\ UNCHANGED <<sys, max_iter, tol, thread_counts, hpc, cfg, iter_serial,
                   iter_parallel, serial_time, parallel_time, stdout, fr, ret, runs, kc, fem>>

\* the whole team is at the barrier: the region ends and the kernel returns
R_Join ==
    /\ \E g \in omp.regions :
         /\ g.running = {}
         /\ omp' = [omp EXCEPT !.regions = @ \ {g},
                               !.log = @ \cup {<<g.run, g.iter, g.pc, g.call>>}]
    /\ UNCHANGED <<sys, max_iter, tol, thread_counts, hpc, cfg, iter_serial,
                   iter_parallel, serial_time, parallel_time, stdout, fr, ret, runs, kc, fem>>

\* a step of bicgstab_parallel completes: its kernel calls have returned; the
\* first convergence check has made its second call exactly when it breaks
R_Step ==
    /\ TeamJoined
    /\ bicgstab_parallel
    /\ DoneHere = IF fr.pc = "chk1" /\ fr'.pc # "epilogue" THEN 1
                  ELSE Len(KernelsOf(fr.pc, fr.iter))

RegionNext ==
    \/ run_benchmark
    \/ bicgstab_serial
    \/ R_Fork
    \/ \E w \in 0..(MaxThreads - 1) : R_Finish(w)
    \/ R_Join
    \/ R_Step

RegionSpec == LiveInit /\ [][RegionNext]_vars

\* ------------------------------------------------------------------------
\* C14
\* ------------------------------------------------------------------------
\* the regions that are active, by the kernel call that forked them
RegionIds(o) == {<<g.run, g.iter, g.pc, g.call>> : g \in o.regions}

\* the kernel calls that iteration k makes before it hands over to k + 1
CallsOfIteration(k) ==
    {e \in BodyPcs \X (1..2) : e[2] <= Len(KernelsOf(e[1], k)) /\ e # <<"chk1", 2>>}

\* C14: in bicgstab_parallel the kernels are fork-join: at most one parallel
\* region is active at any time; a kernel call or a statement of the solver
\* starts only when no region is active, so every worker of the previous
\* kernel call has finished; a region that is active belongs to the step the
\* solver is at; and when the solver is at the head of iteration k+1 every
\* kernel call of iteration k, and so every write to r, p, x, v, s, t, rho,
\* alpha and omega, has returned
C14_ForkJoin ==
    [][/\ Cardinality(omp.regions) <= 1 /\ Cardinality(omp'.regions) <= 1
       /\ (fr' # fr \/ ~(RegionIds(omp') \subseteq RegionIds(omp))) => omp.regions = {}
       /\ \A g \in omp'.regions :
              fr'.fn = "parallel" /\ <<g.run, g.iter, g.pc>> = <<Len(runs'), fr'.iter, fr'.pc>>
       /\ (fr'.fn = "parallel" /\ fr'.iter >= 1 /\ fr'.pc \in {"loop", "rho"}) =>
              \A e \in CallsOfIteration(fr'.iter - 1) :
                  <<Len(runs'), fr'.iter - 1, e[1], e[2]>> \in omp'.log]_vars

\* the team of MaxThreads is inside the first kernel of iteration 1, one
\* worker at the barrier and the others still running
C14_Witness ==
    /\ fr.fn = "parallel" /\ fr.num_threads = MaxThreads
    /\ fr.iter = 1 /\ fr.pc = "rho"
    /\ \E g \in omp.regions :
          g.iter = 1 /\ g.kernel = "dot_product_parallel" /\ Cardinality(g.running) = MaxThreads - 1
    /\ Cardinality({e \in omp.log : e[1] = Len(runs) /\ e[2] = 0}) >= 13

\* ------------------------------------------------------------------------
\* C17
\* ------------------------------------------------------------------------
ScratchNames == {"r", "r0", "p", "v", "s", "t"}

\* the scratch vectors of frame f that hold storage
Allocated(f) == {nm \in ScratchNames : f[nm] # NoVec}

\* C17: in every call of either solver the six scratch vectors r, r0, p, v,
\* s, t are allocated together by the one setup step, which the call takes
\* once, on entry; they hold storage at every later step up to the epilogue;
\* the epilogue, which every exit path takes once, frees all six; and the
\* only step after it, the return, finds none of them allocated and touches
\* none
C17_ScratchAllocatedAndFreedOnce ==
    [][/\ fr'.pc = "setup" => fr.fn = "none" /\ Allocated(fr') = {}
       /\ fr.pc = "setup" => Allocated(fr) = {} /\ Allocated(fr') = ScratchNames
       /\ fr.pc \notin {"none", "setup", "return"} => Allocated(fr) = ScratchNames
       /\ fr.pc = "epilogue" => fr'.pc = "return" /\ Allocated(fr') = {}
       /\ fr.pc = "return" => Allocated(fr) = {} /\ fr' = NoFrame
       /\ Allocated(fr') # Allocated(fr) => fr.pc \in {"setup", "epilogue"}
       /\ fr'.pc = "return" => fr.pc = "epilogue"]_vars

\* a parallel call is about to return after running out of iterations, all
\* six vectors freed, and the serial call before it left through a break
C17_Witness ==
    /\ fr.fn = "parallel" /\ fr.pc = "return" /\ Allocated(fr) = {}
    /\ max_iter = MaxIter /\ fr.iter = max_iter /\ fr.out = << >>
    /\ Len(runs) >= 1 /\ Broke(runs[1])

ReadsOf(pc, iter) ==
    CASE pc = "rho" -> {"rho", "r0", "r"}
      [] pc = "p" -> IF iter = 0 THEN {"r"}
                     ELSE {"rho", "rho_prev", "alpha", "omega", "r", "p", "v"}
      [] pc = "v" -> {"p"}
      [] pc = "alpha" -> {"rho", "r0", "v"}
      [] pc = "s" -> {"r", "alpha", "v"}
      [] pc = "chk1" -> {"s", "bnorm", "alpha", "p"}
      [] pc = "t" -> {"s"}
      [] pc = "omega" -> {"t", "s"}
      [] pc = "x" -> {"alpha", "p", "omega", "s"}
      [] pc = "r" -> {"s", "omega", "t"}
      [] pc = "chk2" -> {"r", "bnorm"}
      [] pc = "omega_chk" -> {"omega"}
      [] OTHER -> {}

\* field nm of frame f holds only values that were assigned: nothing of it is
\* what malloc or a declaration without initialiser left
Assigned(f, nm) ==
    IF nm \in ScratchNames
    THEN f[nm] # NoVec /\ \A i \in 0..(f.n - 1) : f[nm][i] # Uninit
    ELSE f[nm] # Uninit

\* C20: no step of either solver reads a scratch value that was not assigned
\* before: what the step at hand reads - elements of r, r0, p, v, s, t, and
\* the scalars, rho_prev and beta among them - holds assigned values only;
\* beta is assigned only by the p update at a loop index k >= 1; and that
\* update finds v, alpha and omega as iteration k-1 assigned them, never the
\* placeholders alpha = omega = 1.0 of the declaration
C20_NoReadBeforeWrite ==
    [][fr.fn # "none" =>
          /\ \A nm \in ReadsOf(fr.pc, fr.iter) : Assigned(fr, nm)
          /\ (fr.pc = "p" /\ fr.iter >= 1) =>
                /\ fr.last.v = fr.iter - 1
                /\ fr.last.alpha = fr.iter - 1
                /\ fr.last.omega = fr.iter - 1
                /\ Assigned(fr', "beta")
          /\ (fr'.fn # "none" /\ fr'.beta # fr.beta) => (fr.pc = "p" /\ fr.iter >= 1)]_vars

\* a parallel call is at the p update of loop index 1: beta is not assigned
\* yet, and v, alpha (no longer the placeholder) and omega are those of loop
\* index 0
C20_Witness ==
    /\ fr.fn = "parallel" /\ fr.num_threads = MaxThreads
    /\ fr.pc = "p" /\ fr.iter = 1
    /\ fr.beta = Uninit /\ fr.rho_prev # Uninit
    /\ fr.last = [v |-> 0, alpha |-> 0, omega |-> 0]
    /\ fr.alpha # One /\ IsFinite(fr.alpha) /\ IsFinite(fr.omega)
    /\ \A nm \in ReadsOf("p", 1) : Assigned(fr, nm)

\* ------------------------------------------------------------------------
\* create_fem_system, node by node
\*
\* int is 32 bits wide.  Signed overflow is undefined; the builds of this
\* program wrap, which is what the arithmetic below does.
\* ------------------------------------------------------------------------
IntMax == 2147483647

IntMin == -IntMax - 1

\* a + b in int arithmetic
IntAdd(a, b) ==
    IF b > 0 /\ a > IntMax - b THEN (a - IntMax - 1) + (b - IntMax - 1)
    ELSE IF b < 0 /\ a < IntMin - b THEN (a + IntMax + 1) + (b + IntMax + 1)
    ELSE a + b

\* a * b in int arithmetic, b >= 0
RECURSIVE IntMul(_, _)
IntMul(a, b) ==
    IF b = 0 THEN 0
    ELSE LET h == IntMul(a, b \div 2)
             d == IntAdd(h, h)
         IN IF b % 2 = 1 THEN IntAdd(d, a) ELSE d

\* the double nearest to the int k >= 0
IntToDouble(k) == RoundRat(k * One, 1)

\* the largest side of the small grids
MaxGrid == 5

\* the side of a square grid with more than INT_MAX / 5 nodes
BigSide == 20725

\* the grids <<nx, ny>> create_fem_system is called with
Grids == {<<nx, ny>> : nx \in 2..MaxGrid, ny \in 2..MaxGrid} \cup {<<BigSide, BigSide>>}

get_node_number(i, j, nx) == IntAdd(IntMul(i, nx), j)

\* 0 = interior, 1 = bottom, 2 = right, 3 = top, 4 = left
get_boundary_type(i, j, nx, ny) ==
    IF j = 0 THEN 1
    ELSE IF i = ny - 1 THEN 2
    ELSE IF j = nx - 1 THEN 3
    ELSE IF i = 0 THEN 4
    ELSE 0

\* line 27: the call
F_Call(nx, ny) ==
    /\ fem.pc = "idle"
    /\ fem' = [fem EXCEPT !.pc = "alloc", !.nx = nx, !.ny = ny]
    /\ UNCHANGED <<sys, max_iter, tol, thread_counts, hpc, cfg, iter_serial,
                   iter_parallel, serial_time, parallel_time, stdout, fr, ret, runs, omp, kc>>

\* lines 31-59: n = nx * ny, max_nnz = 5 * n, the calloc's, the element
\* stiffness entries, nnz_count = 0, temp_row[0] = 0.  calloc with a negative
\* count (a huge size_t) returns NULL: the temporary arrays then have no
\* capacity at all
F_Alloc ==
    /\ fem.pc = "alloc"
    /\ LET n == IntMul(fem.nx, fem.ny)
           max_nnz == IntMul(5, n)
           hx == FDiv(One, IntToDouble(fem.nx - 1))
           hy == FDiv(One, IntToDouble(fem.ny - 1))
       IN fem' = [fem EXCEPT
                    !.pc = "node",
                    !.n = n,
                    !.max_nnz = max_nnz,
                    !.cap = IF max_nnz < 0 THEN 0 ELSE max_nnz,
                    !.ke = FDiv(FAdd(FDiv(hy, hx), FDiv(hx, hy)), IntToDouble(3)),
                    !.kn = FNeg(FDiv(FDiv(hy, hx), IntToDouble(6))),
                    !.kw = FNeg(FDiv(FDiv(hx, hy), IntToDouble(6))),
                    !.i = 0, !.j = 0, !.nnz_count = 0,
                    !.temp_row = [k \in {0} |-> 0]]
    /\ UNCHANGED <<sys, max_iter, tol, thread_counts, hpc, cfg, iter_serial,
                   iter_parallel, serial_time, parallel_time, stdout, fr, ret, runs, omp, kc>>

\* lines 67-124: the entries <<column, value>> the node at (i, j) adds, in the
\* order they are written
NodeEntries(i, j) ==
    LET node == get_node_number(i, j, fem.nx)
    IN IF get_boundary_type(i, j, fem.nx, fem.ny) > 0
       THEN << <<node, One>> >>
       ELSE (IF j > 0 THEN << <<get_node_number(i, j - 1, fem.nx), fem.kw>> >> ELSE << >>)
            \o (IF i > 0 THEN << <<get_node_number(i - 1, j, fem.nx), fem.kn>> >> ELSE << >>)
            \o << <<node, fem.ke>> >>
            \o (IF i < fem.ny - 1
                THEN << <<get_node_number(i + 1, j, fem.nx), fem.kn>> >> ELSE << >>)
            \o (IF j < fem.nx - 1
                THEN << <<get_node_number(i, j + 1, fem.nx), fem.kw>> >> ELSE << >>)

\* the entries ent fit in what is left of the temporary arrays
F_Node_Fits(ent) == fem.nnz_count + Len(ent) <= fem.cap

\* lines 62-127: one pass of the loop body, for the node at (i, j).  A store
\* past the capacity of the temporary arrays is undefined: through the NULL
\* that a failed calloc returned the process dies; past the end of a block it
\* dies or goes on
F_Node ==
    /\ fem.pc = "node"
    /\ fem.i < fem.ny
    /\ LET node == get_node_number(fem.i, fem.j, fem.nx)
           ent == NodeEntries(fem.i, fem.j)
           last == fem.j = fem.nx - 1
           stored == [fem EXCEPT
                        !.temp_values = @ \o [e \in 1..Len(ent) |-> ent[e][2]],
                        !.temp_col = @ \o [e \in 1..Len(ent) |-> ent[e][1]],
                        !.nnz_count = @ + Len(ent),
                        !.b = [k \in (DOMAIN @) \cup {node} |->
                                  IF k # node THEN @[k]
                                  ELSE IF get_boundary_type(fem.i, fem.j, fem.nx, fem.ny) = 3
                                       THEN One ELSE 0],
                        !.temp_row = [k \in (DOMAIN @) \cup {node + 1} |->
                                         IF k = node + 1 THEN fem.nnz_count + Len(ent)
                                         ELSE @[k]],
                        !.i = IF last THEN @ + 1 ELSE @,
                        !.j = IF last THEN 0 ELSE @ + 1]
       IN IF F_Node_Fits(ent) THEN fem' = stored
          ELSE \/ fem' = [fem EXCEPT !.oob = TRUE, !.pc = "crashed"]
               \/ fem.cap > 0 /\ fem' = [stored EXCEPT !.oob = TRUE]
    /\ UNCHANGED <<sys, max_iter, tol, thread_counts, hpc, cfg, iter_serial,
                   iter_parallel, serial_time, parallel_time, stdout, fr, ret, runs, omp, kc>>

\* lines 130-152: the loop is over; copy to the CSR arrays of exact size,
\* free the temporaries, return
F_Compress ==
    /\ fem.pc = "node"
    /\ fem.i >= fem.ny
    /\ fem' = [fem EXCEPT
                  !.pc = "done",
                  !.A = [n |-> fem.n,
                         nnz |-> fem.nnz_count,
                         values |-> [e \in 0..(fem.nnz_count - 1) |-> fem.temp_values[e + 1]],
                         col_idx |-> [e \in 0..(fem.nnz_count - 1) |-> fem.temp_col[e + 1]],
                         row_ptr |-> [k \in 0..fem.n |-> fem.temp_row[k]]],
                  !.temp_values = << >>, !.temp_col = << >>, !.temp_row = << >>]
    /\ UNCHANGED <<sys, max_iter, tol, thread_counts, hpc, cfg, iter_serial,
                   iter_parallel, serial_time, parallel_time, stdout, fr, ret, runs, omp, kc>>

create_fem_system ==
    \/ \E g \in Grids : F_Call(g[1], g[2])
    \/ F_Alloc
    \/ F_Node
    \/ F_Compress

\* one system is at hand while the builder runs; it plays no part
FemInit ==
    /\ Init
    /\ sys.n = 2 /\ IsIdentityCSR(sys.A) /\ BIsZero
    /\ max_iter = 0 /\ tol = 1 /\ thread_counts[1] = 1

FemSpec == FemInit /\ [][create_fem_system]_vars

\* ------------------------------------------------------------------------
\* C18
\* ------------------------------------------------------------------------
\* C18: for every grid nx >= 2, ny >= 2, create_fem_system has temporary
\* arrays of capacity 5*n with n = nx*ny, never writes more entries than that,
\* runs to its end, and returns a valid CSR matrix: row_ptr[0] = 0, row_ptr
\* non-decreasing, row_ptr[n] = nnz, every col_idx in [0, n)
C18_ValidCSR ==
    /\ fem.pc \notin {"idle", "alloc"} =>
          /\ fem.cap % 5 = 0 /\ fem.cap \div 5 = fem.nx * fem.ny
          /\ fem.nnz_count <= fem.cap
          /\ ~fem.oob /\ fem.pc # "crashed"
    /\ fem.pc = "done" =>
          /\ fem.A.n = fem.nx * fem.ny
          /\ fem.A.row_ptr[0] = 0
          /\ \A k \in 0..(fem.A.n - 1) : fem.A.row_ptr[k] <= fem.A.row_ptr[k + 1]
          /\ fem.A.row_ptr[fem.A.n] = fem.A.nnz
          /\ \A e \in 0..(fem.A.nnz - 1) : fem.A.col_idx[e] \in 0..(fem.A.n - 1)

====
